---- MODULE Spec2Model ----
(***************************************************************************)
(* State-machine model of the four command line tools of ffxiv-timers-cli: *)
(* crop-timers, map-allowances, sub-returns and inventory-tracker.         *)
(*                                                                         *)
(* Instants are whole seconds since the Unix epoch, durations are whole    *)
(* seconds.  The wall clock is the variable clock; every Utc::now() of the *)
(* code reads it, and the action Tick advances it between two steps.       *)
(* Option<T> is a sequence: << >> is None, <<x>> is Some(x).  A rendered   *)
(* text is a sequence of one-character strings.                            *)
(***************************************************************************)
EXTENDS Integers, Sequences, FiniteSets, TLC

(***************************************************************************)
(* Bounds of the model.                                                    *)
(***************************************************************************)
MaxFiles == 2      \* directory entries one run reads
MaxPatches == 3    \* crop records one run loads
MaxTicks == 1      \* seconds the wall clock advances during one run
MaxRows == 3       \* rows of the submarine query / of the inventory file

(***************************************************************************)
(* chrono: durations and the default instant.                              *)
(***************************************************************************)
Hours(n) == n * 3600
Days(n) == n * 86400
Weeks(n) == n * 604800
\* Duration::zero() and DateTime::<Utc>::default(), the Unix epoch.
DurationZero == 0
DateTimeDefault == 0

\* The instant at which a run starts; every input instant is given relative
\* to it.
Now0 == Days(20)

None == << >>
Some(x) == <<x>>

\* Rust's integer division truncates toward zero and % keeps the sign of the
\* dividend.
TruncDiv(a, b) == IF a >= 0 THEN a \div b ELSE -((-a) \div b)
TruncRem(a, b) == a - b * TruncDiv(a, b)

\* Duration::num_seconds / num_minutes / num_hours on a whole-second duration.
num_seconds(dur) == dur
num_minutes(dur) == TruncDiv(dur, 60)
num_hours(dur) == TruncDiv(dur, 3600)

Digit(d) == <<"0", "1", "2", "3", "4", "5", "6", "7", "8", "9">>[d + 1]

RECURSIVE Decimal(_)
\* The decimal digits of a natural number, most significant first.
Decimal(n) == IF n < 10 THEN <<Digit(n)>> ELSE Decimal(n \div 10) \o <<Digit(n % 10)>>

\* format!("{:02}", n): sign-aware zero padding to a minimum width of two.
Fmt02(n) ==
    LET sign == IF n < 0 THEN <<"-">> ELSE << >>
        digits == Decimal(IF n < 0 THEN -n ELSE n)
        pad == IF Len(sign) + Len(digits) < 2 THEN <<"0">> ELSE << >>
    IN  sign \o pad \o digits

FormatCountdownNoWrap(dur) ==
    Fmt02(num_hours(dur)) \o <<":">> \o Fmt02(num_minutes(dur)) \o <<":">>
        \o Fmt02(TruncRem(num_seconds(dur), 60))

\* format!("{:02}:{:02}:{:02}", dur.num_hours(), dur.num_minutes() % 60,
\*         dur.num_seconds() % 60)
FormatCountdown(dur) ==
    Fmt02(num_hours(dur)) \o <<":">> \o Fmt02(TruncRem(num_minutes(dur), 60)) \o <<":">>
        \o Fmt02(TruncRem(num_seconds(dur), 60))

(***************************************************************************)
(* crop-timers: the catalog.                                               *)
(***************************************************************************)
KnownCrops == {4842, 6146, 7604, 7895, 8165, 12896}

crop_name(id) ==
    CASE id = 4842 -> "Almond"
      [] id = 6146 -> "Mirror Apple"
      [] id = 7604 -> "Royal Kukuru"
      [] id = 7895 -> "Sylkis Bud"
      [] id = 8165 -> "Krakka Root"
      [] id = 12896 -> "Old World Fig"
      [] OTHER -> "(Unknown Crop)"

crop_grow_time(id) ==
    CASE id = 4842 -> Days(5)
      [] id = 6146 -> Days(5)
      [] id = 7604 -> Days(6)
      [] id = 7895 -> Days(5)
      [] id = 8165 -> Days(3)
      [] id = 12896 -> Days(5)
      [] OTHER -> DurationZero

crop_wilt_time(id) ==
    CASE id = 4842 -> Hours(48)
      [] id = 6146 -> Hours(48)
      [] id = 7604 -> Hours(36)
      [] id = 7895 -> Hours(48)
      [] id = 8165 -> Hours(24)
      [] id = 12896 -> Hours(48)
      [] OTHER -> DurationZero

crop_wither_time_nograce(id) == crop_wilt_time(id)

crop_wither_time(id) == crop_wilt_time(id) + Days(1)

(***************************************************************************)
(* crop-timers: the status of one crop and the severity order.             *)
(***************************************************************************)
CropStatus == {"Good", "Okay", "Wilt", "Done", "Dead"}

CropStatusOrdOkayFirst(s) ==
    CASE s = "Okay" -> 0
      [] s = "Good" -> 1
      [] s = "Wilt" -> 2
      [] s = "Done" -> 3
      [] s = "Dead" -> 4

\* #[derive(PartialOrd, Ord)]: the variants compare in declaration order.
CropStatusOrd(s) ==
    CASE s = "Good" -> 0
      [] s = "Okay" -> 1
      [] s = "Wilt" -> 2
      [] s = "Done" -> 3
      [] s = "Dead" -> 4

CropInfo(id, plant, tend) == [plant_id |-> id, plant_time |-> plant, last_tending |-> tend]

crop_status_dead_on_tie(crop, now) ==
    LET wilt_time == crop.last_tending + crop_wilt_time(crop.plant_id)
        wither_time == crop.last_tending + crop_wither_time(crop.plant_id)
        finish_time == crop.plant_time + crop_grow_time(crop.plant_id)
    IN  IF wither_time <= finish_time /\ wither_time < now THEN "Dead"
        ELSE IF finish_time < now THEN "Done"
        ELSE IF finish_time < wither_time THEN "Good"
        ELSE IF wilt_time < now THEN "Wilt"
        ELSE "Okay"

\* now is the value Utc::now() returns inside the call.
crop_status(crop, now) ==
    LET wilt_time == crop.last_tending + crop_wilt_time(crop.plant_id)
        wither_time == crop.last_tending + crop_wither_time(crop.plant_id)
        finish_time == crop.plant_time + crop_grow_time(crop.plant_id)
    IN  IF wither_time < finish_time /\ wither_time < now THEN "Dead"
        ELSE IF finish_time < now THEN "Done"
        ELSE IF finish_time < wither_time THEN "Good"
        ELSE IF wilt_time < now THEN "Wilt"
        ELSE "Okay"

\* The record crop_status leaves behind for one patch: the status, the instant
\* it sampled and the three instants it derived.
Classified(crop, now) ==
    [status |-> crop_status(crop, now),
     now |-> now,
     wilt_time |-> crop.last_tending + crop_wilt_time(crop.plant_id),
     wither_time |-> crop.last_tending + crop_wither_time(crop.plant_id),
     finish_time |-> crop.plant_time + crop_grow_time(crop.plant_id)]

IterMaxStepMin(acc, s) ==
    IF acc = None THEN Some(s)
    ELSE IF CropStatusOrd(acc[1]) < CropStatusOrd(s) THEN acc ELSE Some(s)

\* One step of Iterator::max over the statuses: the later element wins a tie.
IterMaxStep(acc, s) ==
    IF acc = None THEN Some(s)
    ELSE IF CropStatusOrd(acc[1]) > CropStatusOrd(s) THEN acc ELSE Some(s)

unwrap_or(opt, default) == IF opt = None THEN default ELSE opt[1]

SeqRange(s) == {s[i] : i \in 1..Len(s)}
SetMin(S) == CHOOSE x \in S : \A y \in S : x <= y
SetMax(S) == CHOOSE x \in S : \A y \in S : x >= y

\* Iterator::min over the instants of a group.
IterMin(s) == IF Len(s) = 0 THEN None ELSE Some(SetMin(SeqRange(s)))
IterMaxTime(s) == IF Len(s) = 0 THEN None ELSE Some(SetMax(SeqRange(s)))

WiltAt(crop) == crop.last_tending + crop_wilt_time(crop.plant_id)
WitherAt(crop) == crop.last_tending + crop_wither_time(crop.plant_id)
FinishAt(crop) == crop.plant_time + crop_grow_time(crop.plant_id)

StageTimeMax(overall_status, patches) ==
    CASE overall_status = "Dead" -> None
      [] overall_status = "Done" -> None
      [] overall_status = "Okay" -> IterMaxTime([i \in 1..Len(patches) |-> WiltAt(patches[i])])
      [] overall_status = "Wilt" -> IterMaxTime([i \in 1..Len(patches) |-> WitherAt(patches[i])])
      [] overall_status = "Good" -> IterMaxTime([i \in 1..Len(patches) |-> FinishAt(patches[i])])

\* let stage_time = match overall_status { ... }
StageTime(overall_status, patches) ==
    CASE overall_status = "Dead" -> None
      [] overall_status = "Done" -> None
      [] overall_status = "Okay" -> IterMin([i \in 1..Len(patches) |-> WiltAt(patches[i])])
      [] overall_status = "Wilt" -> IterMin([i \in 1..Len(patches) |-> WitherAt(patches[i])])
      [] overall_status = "Good" -> IterMin([i \in 1..Len(patches) |-> FinishAt(patches[i])])

\* stage_time.map(|time| time - now).map(|dur| format!(..)).unwrap_or_default()
TimeDisplay(stage_time, now) ==
    IF stage_time = None THEN << >> ELSE FormatCountdown(stage_time[1] - now)

\* impl CropStatus { fn color }
color(s) ==
    CASE s = "Good" -> "Cyan"
      [] s = "Okay" -> "Yellow"
      [] s = "Wilt" -> "Magenta"
      [] s = "Done" -> "Green"
      [] s = "Dead" -> "Red"

(***************************************************************************)
(* map-allowances, sub-returns, inventory-tracker: the lookups.            *)
(***************************************************************************)
\* map-allowances: fn server_name
server_name(id) ==
    CASE id = 72 -> "Tonberry"
      [] id = 91 -> "Balmung"
      [] OTHER -> "(Unknown Server)"

\* inventory-tracker: fn worldname
worldname(id) ==
    CASE id = 72 -> "Tonberry"
      [] id = 91 -> "Balmung"
      [] OTHER -> "<Unknown>"

VentureItemId == 21072

(***************************************************************************)
(* The inputs a run can meet.                                              *)
(***************************************************************************)
Tools == {"crop-timers", "map-allowances", "sub-returns", "inventory-tracker"}

\* Directory entries the per-file loops pass over without loading anything:
\* a failed entry, a failed file_type, a directory, another extension, a file
\* that cannot be read, a file that does not deserialize.
SkippedKinds == {"entry_err", "file_type_err", "not_file", "not_json", "unreadable", "malformed"}
BadKinds == {"unreadable", "malformed"}

\* Crop records of the plugin's files.  Krakka Root (8165) grows in 3 days,
\* wilts 24 h and withers 48 h after the last tending; Almond (4842) grows in
\* 5 days, wilts after 48 h and withers after 72 h.
CropPool ==
    { CropInfo(8165, Now0 - Days(1), Now0 - Hours(30)),           \* wilting, withers before it is grown
      CropInfo(8165, Now0 - Days(1), Now0 - Days(3)),             \* withered before it was grown
      CropInfo(8165, Now0 - Days(4), Now0 - Days(3)),             \* grown; wither instant = finish instant
      CropInfo(8165, Now0 - Hours(60), Now0 - Hours(30)),         \* will be grown before it withers
      CropInfo(8165, Now0 - Days(1), Now0 - Hours(24)),           \* starts wilting at Now0
      CropInfo(4842, Now0 - Days(1), Now0 - 82611),               \* wilts 25 h 3 min 9 s after Now0
      CropInfo(4842, Now0 - Days(1), Now0 - Hours(72)),           \* withers at Now0
      CropInfo(8165, DateTimeDefault, Now0 - Hours(1)),           \* plant_time did not parse
      CropInfo(99, Now0 + Hours(1), Now0 - Hours(1)),             \* an id the catalog does not know
      CropInfo(0, Now0 - Days(1), Now0 - Hours(1)) }              \* an empty patch

CropFiles == UNION {[1..n -> CropPool] : n \in 0..2}

Task(name, server, map) == [name |-> name, server_id |-> server, map |-> map]

TaskPool ==
    { Task("Alphinaud", 72, DateTimeDefault),
      Task("Alisaie", 91, Now0 - Days(8)),
      Task("Tataru", 91, Now0 - Hours(1)),
      Task("Krile", 5, Now0),
      Task("Estinien", 72, Now0 + 90189) }

ReturnPool == {DateTimeDefault, Now0 - 300, Now0, Now0 + 90189}

\* conf.saved_characters
saved_characters == [c \in {1, 2} |-> IF c = 1 THEN [name |-> "Thancred", world_id |-> 72]
                                             ELSE [name |-> "Urianger", world_id |-> 3]]

InvRowPool ==
    { [ok |-> FALSE, item_id |-> 0, quantity |-> 0, character_id |-> 0],
      [ok |-> TRUE, item_id |-> VentureItemId, quantity |-> 5, character_id |-> 1],
      [ok |-> TRUE, item_id |-> VentureItemId, quantity |-> 7, character_id |-> 9],
      [ok |-> TRUE, item_id |-> 4842, quantity |-> 1, character_id |-> 2] }

(***************************************************************************)
(* The state.                                                              *)
(***************************************************************************)
VARIABLES
    tool,             \* the binary that runs
    pc,               \* its position
    exit,             \* "running", then main's result: "Ok", "Err" or "panic"
    clock,            \* the wall clock Utc::now() reads
    out,              \* the lines written to stdout
    nread,            \* directory entries / query rows read so far
    nskipped,         \* of these, the unreadable or malformed ones
    offered,          \* records of the well-formed files read so far
    entries_by_crop,  \* crop-timers: plant_id -> patches
    crop_id,          \* crop-timers: the group the output loop is at
    classified,       \* crop-timers: what crop_status did for its patches so far
    overall,          \* crop-timers: the running maximum of Iterator::max
    entries,          \* map-allowances: the loaded tasks
    max_name_len,     \* map-allowances: width of the name column
    idx,              \* position of the loop over entries / fcs / rows
    fcs,              \* sub-returns: the free companies with their submarines
    sub,              \* sub-returns: position in fc.submarines
    inv_rows          \* inventory-tracker: the rows of inventories.csv

vars == <<tool, pc, exit, clock, out, nread, nskipped, offered, entries_by_crop, crop_id,
          classified, overall, entries, max_name_len, idx, fcs, sub, inv_rows>>

cropVars == <<entries_by_crop, crop_id, classified, overall>>
mapVars == <<entries, max_name_len>>
subVars == <<fcs, sub>>
readVars == <<nread, nskipped, offered>>

InvFiles == UNION {[1..n -> InvRowPool] : n \in 0..MaxRows}

Init ==
    /\ tool \in Tools
    /\ pc = CASE tool = "crop-timers" -> "read_dir"
              [] tool = "map-allowances" -> "read_dir"
              [] tool = "sub-returns" -> "query"
              [] tool = "inventory-tracker" -> "rows"
    /\ exit = "running"
    /\ clock = Now0
    /\ out = << >>
    /\ nread = 0
    /\ nskipped = 0
    /\ offered = 0
    /\ entries_by_crop = << >>
    /\ crop_id = 0
    /\ classified = << >>
    /\ overall = None
    /\ entries = << >>
    /\ max_name_len = 0
    /\ idx = 1
    /\ fcs = << >>
    /\ sub = 1
    /\ inv_rows \in (IF tool = "inventory-tracker" THEN InvFiles ELSE {<< >>})

\* Time passes between two steps of a run.
Tick ==
    /\ exit = "running"
    /\ clock < Now0 + MaxTicks
    /\ clock' = clock + 1
    /\ UNCHANGED <<tool, pc, exit, out, readVars, cropVars, mapVars, idx, subVars, inv_rows>>

(***************************************************************************)
(* crop-timers: main.                                                      *)
(***************************************************************************)
\* entries_by_crop.entry(crop.plant_id).or_default().push(crop), skipping id 0.
PushCrop(m, crop) ==
    IF crop.plant_id = 0 THEN m
    ELSE IF crop.plant_id \in DOMAIN m THEN [m EXCEPT ![crop.plant_id] = Append(@, crop)]
    ELSE [k \in DOMAIN m \cup {crop.plant_id} |-> IF k \in DOMAIN m THEN m[k] ELSE <<crop>>]

RECURSIVE PushCrops(_, _)
\* for crop in data.crops { ... }
PushCrops(m, crops) ==
    IF Len(crops) = 0 THEN m ELSE PushCrops(PushCrop(m, Head(crops)), Tail(crops))

RECURSIVE SumLen(_, _)
SumLen(m, keys) ==
    IF keys = {} THEN 0
    ELSE LET k == CHOOSE x \in keys : TRUE IN Len(m[k]) + SumLen(m, keys \ {k})

NumPatches(m) == SumLen(m, DOMAIN m)
NonEmptyPatches(crops) == Cardinality({i \in 1..Len(crops) : crops[i].plant_id # 0})

\* The keys of the BTreeMap after k, in ascending order.
KeysAfter(m, k) == {x \in DOMAIN m : x > k}

\* One pass of the loop over the directory that ends in a continue.
SkipCropEntry ==
    /\ tool = "crop-timers" /\ pc = "read_dir"
    /\ nread < MaxFiles
    /\ \E kind \in SkippedKinds :
          nskipped' = IF kind \in BadKinds THEN nskipped + 1 ELSE nskipped
    /\ nread' = nread + 1
    /\ UNCHANGED <<tool, pc, exit, clock, out, offered, cropVars, mapVars, idx, subVars, inv_rows>>

\* One pass of the loop over the directory that loads a file.
ReadCropEntry ==
    /\ tool = "crop-timers" /\ pc = "read_dir"
    /\ nread < MaxFiles
    /\ \E crops \in CropFiles :
          /\ NumPatches(entries_by_crop) + Len(crops) <= MaxPatches
          /\ entries_by_crop' = PushCrops(entries_by_crop, crops)
          /\ offered' = offered + NonEmptyPatches(crops)
    /\ nread' = nread + 1
    /\ UNCHANGED <<tool, pc, exit, clock, out, nskipped, crop_id, classified, overall,
                   mapVars, idx, subVars, inv_rows>>

\* The directory is exhausted: "Crops:" is written and the output loop starts.
CropsHeader ==
    /\ tool = "crop-timers" /\ pc = "read_dir"
    /\ out' = Append(out, [shown |-> "header", text |-> "Crops:"])
    /\ IF DOMAIN entries_by_crop = {}
       THEN /\ pc' = "done" /\ exit' = "Ok" /\ UNCHANGED crop_id
       ELSE /\ pc' = "group" /\ crop_id' = SetMin(DOMAIN entries_by_crop) /\ UNCHANGED exit
    /\ UNCHANGED <<tool, clock, readVars, entries_by_crop, classified, overall, mapVars, idx,
                   subVars, inv_rows>>

\* patches.iter().map(|(_, crop)| crop_status(crop)).max(): the next patch.
ClassifyPatch ==
    /\ tool = "crop-timers" /\ pc = "group"
    /\ Len(classified) < Len(entries_by_crop[crop_id])
    /\ LET crop == entries_by_crop[crop_id][Len(classified) + 1]
           c == Classified(crop, clock)
       IN  /\ classified' = Append(classified, c)
           /\ overall' = IterMaxStep(overall, c.status)
    /\ UNCHANGED <<tool, pc, exit, clock, out, readVars, entries_by_crop, crop_id, mapVars,
                   idx, subVars, inv_rows>>

\* The rest of the loop body: stage_time, now, time_display, the line.
RenderGroup ==
    /\ tool = "crop-timers" /\ pc = "group"
    /\ Len(classified) = Len(entries_by_crop[crop_id])
    /\ LET patches == entries_by_crop[crop_id]
           overall_status == unwrap_or(overall, "Okay")
           stage_time == StageTime(overall_status, patches)
           now == clock
           time_display == TimeDisplay(stage_time, now)
       IN  out' = Append(out, [shown |-> IF stage_time = None THEN "none" ELSE "countdown",
                               crop_id |-> crop_id,
                               name |-> crop_name(crop_id),
                               count |-> Len(patches),
                               status |-> overall_status,
                               color |-> color(overall_status),
                               deadline |-> stage_time,
                               now |-> now,
                               text |-> time_display,
                               classified |-> classified])
    /\ classified' = << >>
    /\ overall' = None
    /\ IF KeysAfter(entries_by_crop, crop_id) = {}
       THEN /\ pc' = "done" /\ exit' = "Ok" /\ UNCHANGED crop_id
       ELSE /\ crop_id' = SetMin(KeysAfter(entries_by_crop, crop_id)) /\ UNCHANGED <<pc, exit>>
    /\ UNCHANGED <<tool, clock, readVars, entries_by_crop, mapVars, idx, subVars, inv_rows>>

(***************************************************************************)
(* map-allowances: main.                                                   *)
(***************************************************************************)
\* One pass of the loop over the directory that ends in a continue.
SkipTaskEntry ==
    /\ tool = "map-allowances" /\ pc = "read_dir"
    /\ nread < MaxFiles
    /\ \E kind \in SkippedKinds :
          nskipped' = IF kind \in BadKinds THEN nskipped + 1 ELSE nskipped
    /\ nread' = nread + 1
    /\ UNCHANGED <<tool, pc, exit, clock, out, offered, cropVars, mapVars, idx, subVars, inv_rows>>

\* One pass of the loop over the directory that ends in entries.push(data).
ReadTaskEntry ==
    /\ tool = "map-allowances" /\ pc = "read_dir"
    /\ nread < MaxFiles
    /\ \E data \in TaskPool : entries' = Append(entries, data)
    /\ nread' = nread + 1
    /\ offered' = offered + 1
    /\ UNCHANGED <<tool, pc, exit, clock, out, nskipped, cropVars, max_name_len, idx,
                   subVars, inv_rows>>

\* The directory is exhausted: if entries.is_empty() { return Ok(()) }.
TasksLoaded ==
    /\ tool = "map-allowances" /\ pc = "read_dir"
    /\ IF Len(entries) = 0
       THEN /\ pc' = "done" /\ exit' = "Ok"
       ELSE /\ pc' = "retain" /\ UNCHANGED exit
    /\ UNCHANGED <<tool, clock, out, readVars, cropVars, mapVars, idx, subVars, inv_rows>>

RemoveAt(s, i) == SubSeq(s, 1, i - 1) \o SubSeq(s, i + 1, Len(s))

\* entries.retain(..): the closure on the next entry, with its own Utc::now().
RetainEntry ==
    /\ tool = "map-allowances" /\ pc = "retain"
    /\ idx <= Len(entries)
    /\ LET now == clock
           one_week_ago == now - Weeks(1)
       IN  IF entries[idx].map > one_week_ago
           THEN /\ idx' = idx + 1 /\ UNCHANGED entries
           ELSE /\ entries' = RemoveAt(entries, idx) /\ UNCHANGED idx
    /\ UNCHANGED <<tool, pc, exit, clock, out, readVars, cropVars, max_name_len, subVars,
                   inv_rows>>

NameWidth(entry) == Len(entry.name) + Len(server_name(entry.server_id)) + 3

\* let max_name_len = entries.iter().map(..).max().unwrap(), then the title.
MaxNameLen ==
    /\ tool = "map-allowances" /\ pc = "retain"
    /\ idx > Len(entries)
    /\ IF Len(entries) = 0
       THEN /\ pc' = "done" /\ exit' = "panic"
            /\ UNCHANGED <<max_name_len, out>>
       ELSE /\ max_name_len' = SetMax({NameWidth(entries[i]) : i \in 1..Len(entries)})
            /\ out' = Append(out, [shown |-> "header", text |-> "Map Allowances"])
            /\ pc' = "render"
            /\ UNCHANGED exit
    /\ idx' = 1
    /\ UNCHANGED <<tool, clock, readVars, cropVars, entries, subVars, inv_rows>>

\* for data in entries { ... }: one line.
RenderTask ==
    /\ tool = "map-allowances" /\ pc = "render"
    /\ idx <= Len(entries)
    /\ LET data == entries[idx]
           now == clock
       IN  out' = Append(out,
                IF data.map < now
                THEN [shown |-> "elapsed", color |-> "Green", name |-> data.name,
                      deadline |-> Some(data.map), now |-> now, text |-> << >>]
                ELSE [shown |-> "countdown", color |-> "Cyan", name |-> data.name,
                      deadline |-> Some(data.map), now |-> now,
                      text |-> FormatCountdown(data.map - now)])
    /\ idx' = idx + 1
    /\ IF idx = Len(entries)
       THEN /\ pc' = "done" /\ exit' = "Ok"
       ELSE UNCHANGED <<pc, exit>>
    /\ UNCHANGED <<tool, clock, readVars, cropVars, mapVars, subVars, inv_rows>>

(***************************************************************************)
(* sub-returns: get_submarine_info and main.                               *)
(***************************************************************************)
\* One row of the query: it belongs to the last free company or opens the next.
ReadSubRow ==
    /\ tool = "sub-returns" /\ pc = "query"
    /\ nread < MaxRows
    /\ \E new_fc \in BOOLEAN, return_time \in ReturnPool :
          LET submarine == [return_time |-> return_time]
          IN  IF Len(fcs) = 0 \/ new_fc
              THEN fcs' = Append(fcs, [id |-> Len(fcs) + 1, submarines |-> <<submarine>>])
              ELSE fcs' = [fcs EXCEPT ![Len(fcs)].submarines = Append(@, submarine)]
    /\ nread' = nread + 1
    /\ offered' = offered + 1
    /\ UNCHANGED <<tool, pc, exit, clock, out, nskipped, cropVars, mapVars, idx, sub, inv_rows>>

\* A row whose column does not convert: the ? returns the error from main.
BadSubRow ==
    /\ tool = "sub-returns" /\ pc = "query"
    /\ nread < MaxRows
    /\ nread' = nread + 1
    /\ nskipped' = nskipped + 1
    /\ pc' = "done"
    /\ exit' = "Err"
    /\ UNCHANGED <<tool, clock, out, offered, cropVars, mapVars, idx, subVars, inv_rows>>

\* rows.next() returns None: get_submarine_info returns fcs.
SubsLoaded ==
    /\ tool = "sub-returns" /\ pc = "query"
    /\ IF Len(fcs) = 0
       THEN /\ pc' = "done" /\ exit' = "Ok"
       ELSE /\ pc' = "fc" /\ UNCHANGED exit
    /\ UNCHANGED <<tool, clock, out, readVars, cropVars, mapVars, idx, subVars, inv_rows>>

\* for fc in fcs: the title line of the free company and max_name_length.
FcHeader ==
    /\ tool = "sub-returns" /\ pc = "fc"
    /\ idx <= Len(fcs)
    /\ IF Len(fcs[idx].submarines) = 0
       THEN /\ pc' = "done" /\ exit' = "panic" /\ UNCHANGED out
       ELSE /\ out' = Append(out, [shown |-> "header", text |-> "Submarines",
                                   count |-> Len(fcs[idx].submarines)])
            /\ pc' = "sub" /\ UNCHANGED exit
    /\ sub' = 1
    /\ UNCHANGED <<tool, clock, readVars, cropVars, mapVars, idx, fcs, inv_rows>>

\* for sub in fc.submarines: one line.
SubLine ==
    /\ tool = "sub-returns" /\ pc = "sub"
    /\ sub <= Len(fcs[idx].submarines)
    /\ LET return_time == fcs[idx].submarines[sub].return_time
           now == clock
       IN  out' = Append(out,
                IF return_time = DateTimeDefault
                THEN [shown |-> "unassigned", color |-> "Magenta", deadline |-> None,
                      now |-> now, text |-> << >>]
                ELSE IF return_time <= now
                THEN [shown |-> "elapsed", color |-> "Green", deadline |-> Some(return_time),
                      now |-> now, text |-> << >>]
                ELSE [shown |-> "countdown", color |-> "Cyan", deadline |-> Some(return_time),
                      now |-> now, text |-> FormatCountdown(return_time - now)])
    /\ IF sub < Len(fcs[idx].submarines)
       THEN /\ sub' = sub + 1 /\ UNCHANGED <<idx, pc, exit>>
       ELSE /\ sub' = 1
            /\ idx' = idx + 1
            /\ IF idx = Len(fcs)
               THEN /\ pc' = "done" /\ exit' = "Ok"
               ELSE /\ pc' = "fc" /\ UNCHANGED exit
    /\ UNCHANGED <<tool, clock, readVars, cropVars, mapVars, fcs, inv_rows>>

(***************************************************************************)
(* inventory-tracker: main.                                                *)
(***************************************************************************)
\* for res in reader.deserialize() { let item: InventoryItem = res?; ... }
ReadInvRow ==
    /\ tool = "inventory-tracker" /\ pc = "rows"
    /\ idx <= Len(inv_rows)
    /\ LET res == inv_rows[idx]
           known == res.character_id \in DOMAIN saved_characters
       IN  IF ~res.ok
           THEN /\ pc' = "done" /\ exit' = "Err" /\ UNCHANGED out
           ELSE /\ UNCHANGED <<pc, exit>>
                /\ IF res.item_id = VentureItemId
                   THEN out' = Append(out,
                           [shown |-> "text", row |-> idx, quantity |-> res.quantity,
                            charname |-> IF known THEN saved_characters[res.character_id].name
                                         ELSE "",
                            worldname |-> IF known
                                          THEN worldname(saved_characters[res.character_id].world_id)
                                          ELSE ""])
                   ELSE UNCHANGED out
    /\ idx' = idx + 1
    /\ nread' = nread + 1
    /\ UNCHANGED <<tool, clock, nskipped, offered, cropVars, mapVars, subVars, inv_rows>>

\* The reader is exhausted: Ok(()).
InvDone ==
    /\ tool = "inventory-tracker" /\ pc = "rows"
    /\ idx > Len(inv_rows)
    /\ pc' = "done"
    /\ exit' = "Ok"
    /\ UNCHANGED <<tool, clock, out, readVars, cropVars, mapVars, idx, subVars, inv_rows>>

Next ==
    \/ Tick
    \/ SkipCropEntry
    \/ ReadCropEntry
    \/ CropsHeader
    \/ ClassifyPatch
    \/ RenderGroup
    \/ SkipTaskEntry
    \/ ReadTaskEntry
    \/ TasksLoaded
    \/ RetainEntry
    \/ MaxNameLen
    \/ RenderTask
    \/ ReadSubRow
    \/ BadSubRow
    \/ SubsLoaded
    \/ FcHeader
    \/ SubLine
    \/ ReadInvRow
    \/ InvDone

Spec == Init /\ [][Next]_vars

(***************************************************************************)
(* What the properties below look at.                                      *)
(***************************************************************************)
Lines == SeqRange(out)

\* The lines crop-timers has written for its groups.
CropLines == IF tool = "crop-timers" THEN {l \in Lines : l.shown # "header"} ELSE {}

\* The lines of any tool that render an instant.
TimedLines == {l \in Lines : l.shown \in {"countdown", "elapsed", "unassigned", "none"}}

\* <<crop, what crop_status did for it>> for every patch classified so far.
CurrentViews ==
    IF tool = "crop-timers" /\ pc = "group"
    THEN {<<entries_by_crop[crop_id][i], classified[i]>> : i \in 1..Len(classified)}
    ELSE {}

LineViews(l) == {<<entries_by_crop[l.crop_id][i], l.classified[i]>> : i \in 1..Len(l.classified)}

PatchViews == CurrentViews \cup UNION {LineViews(l) : l \in CropLines}

Absent(crop) == crop.plant_time = DateTimeDefault \/ crop.last_tending = DateTimeDefault

Position(order, s) == CHOOSE i \in 1..Len(order) : order[i] = s

IsDigit(ch) == ch \in {"0", "1", "2", "3", "4", "5", "6", "7", "8", "9"}
DigitValue(ch) == CHOOSE k \in 0..9 : Digit(k) = ch

RECURSIVE ParseNat(_)
ParseNat(digits) ==
    IF Len(digits) = 0 THEN 0
    ELSE 10 * ParseNat(SubSeq(digits, 1, Len(digits) - 1)) + DigitValue(digits[Len(digits)])

AllDigits(chars) == \A i \in 1..Len(chars) : IsDigit(chars[i])

(***************************************************************************)
(* C1.  crop_status returns the first matching case of: Dead if decay_end  *)
(* is earlier than completion and earlier than now; Done if completion is  *)
(* earlier than now; Good if completion is earlier than decay_end; Wilt if *)
(* decay_start is earlier than now; Okay otherwise.  A record whose        *)
(* decay_end has not passed is never Dead, nor is one whose decay_end      *)
(* equals its completion.                                                  *)
(***************************************************************************)
C1_CropStatusDecisionList ==
    \A v \in PatchViews :
        LET crop == v[1]
            now == v[2].now
            s == v[2].status
            decay_start == crop.last_tending + crop_wilt_time(crop.plant_id)
            decay_end == crop.last_tending + crop_wither_time(crop.plant_id)
            completion == crop.plant_time + crop_grow_time(crop.plant_id)
            case1 == decay_end < completion /\ decay_end < now
            case2 == completion < now
            case3 == completion < decay_end
            case4 == decay_start < now
        IN  /\ (s = "Dead") <=> case1
            /\ (s = "Done") <=> (~case1 /\ case2)
            /\ (s = "Good") <=> (~case1 /\ ~case2 /\ case3)
            /\ (s = "Wilt") <=> (~case1 /\ ~case2 /\ ~case3 /\ case4)
            /\ (s = "Okay") <=> (~case1 /\ ~case2 /\ ~case3 /\ ~case4)
            /\ (decay_end >= now => s # "Dead")
            /\ (decay_end = completion => s # "Dead")

\* A patch whose decay_end equals its completion, both passed, is Done, and a
\* patch whose decay_end precedes its completion but has not passed is Wilt.
C1_Witness ==
    /\ \E v \in PatchViews :
          /\ v[2].wither_time = v[2].finish_time
          /\ v[2].wither_time < v[2].now
          /\ v[2].status = "Done"
    /\ \E v \in PatchViews :
          /\ v[2].wither_time < v[2].finish_time
          /\ v[2].wither_time >= v[2].now
          /\ v[2].status = "Wilt"

(***************************************************************************)
(* C2.  The severity order that picks the status of a group.               *)
(***************************************************************************)
SeverityClaimed == <<"Okay", "Good", "Wilt", "Done", "Dead">>
SeverityDerived == <<"Good", "Okay", "Wilt", "Done", "Dead">>

LineStatusIsLatestIn(order, l) ==
    /\ \E i \in 1..Len(l.classified) : l.classified[i].status = l.status
    /\ \A i \in 1..Len(l.classified) :
          Position(order, l.classified[i].status) <= Position(order, l.status)

\* C2 as claimed: the status of a group is the status of the member latest in
\* Okay < Good < Wilt < Done < Dead, so an Okay and a Good member give Good.
C2_OkayBelowGood == \A l \in CropLines : LineStatusIsLatestIn(SeverityClaimed, l)

\* C2 as amended: the status of a group is the status of the member latest in
\* Good < Okay < Wilt < Done < Dead, so an Okay and a Good member give Okay.
C2_GoodBelowOkay == \A l \in CropLines : LineStatusIsLatestIn(SeverityDerived, l)

C2_Witness ==
    \E l \in CropLines :
        /\ \E i \in 1..Len(l.classified) : l.classified[i].status = "Okay"
        /\ \E i \in 1..Len(l.classified) : l.classified[i].status = "Good"
        /\ l.status = "Okay"

(***************************************************************************)
(* C3.  The overall status of a non-empty group is the status of one of    *)
(* its members and is not lower, in the order the aggregator compares by,  *)
(* than the status of any member.  It holds after every member the         *)
(* maximum has taken in, so a further member of higher severity never      *)
(* lowers it.                                                              *)
(***************************************************************************)
C3_OverallIsMaxOfMembers ==
    /\ (tool = "crop-timers" /\ pc = "group" /\ Len(classified) > 0) =>
          /\ overall # None
          /\ \E i \in 1..Len(classified) : classified[i].status = overall[1]
          /\ \A i \in 1..Len(classified) :
                CropStatusOrd(classified[i].status) <= CropStatusOrd(overall[1])
    /\ \A l \in CropLines :
          /\ Len(l.classified) = l.count
          /\ l.count > 0
          /\ \E i \in 1..l.count : l.classified[i].status = l.status
          /\ \A i \in 1..l.count :
                CropStatusOrd(l.classified[i].status) <= CropStatusOrd(l.status)

\* A member of higher severity joined a group after a member of lower severity.
C3_Witness ==
    /\ tool = "crop-timers" /\ pc = "group"
    /\ Len(classified) >= 2
    /\ CropStatusOrd(classified[1].status) < CropStatusOrd(classified[2].status)
    /\ overall = Some(classified[2].status)

(***************************************************************************)
(* C4.  The next deadline of a group follows its overall status: absent    *)
(* for Dead and Done; for Okay the earliest decay_start among the members  *)
(* at Okay or below; for Wilt the earliest decay_end among the members;    *)
(* for Good the earliest completion among the members at Good.  It is a    *)
(* minimum, never a maximum.                                               *)
(***************************************************************************)
IsEarliest(deadline, instants) ==
    /\ deadline # None
    /\ deadline[1] \in instants
    /\ \A t \in instants : deadline[1] <= t

C5_NoCountdownOnceElapsed ==
    \A l \in TimedLines :
        (l.deadline # None /\ l.deadline[1] <= l.now) => l.shown = "elapsed"

(***************************************************************************)
(* C6.  The instant every member of a group is classified against is the   *)
(* instant its countdown is computed from.                                 *)
(***************************************************************************)
C6_OneNowPerGroup ==
    \A l \in CropLines : \A i \in 1..Len(l.classified) : l.classified[i].now = l.now

(***************************************************************************)
(* C7.  A record whose reference timestamp is absent is classified         *)
(* Unassigned, is not treated as an instant that has elapsed, and does not *)
(* reach the deadline of its group; alone in its group it gives deadline   *)
(* absent and status Unassigned.                                           *)
(***************************************************************************)
C7_AbsentIsUnassigned ==
    /\ \A v \in PatchViews : Absent(v[1]) => v[2].status = "Unassigned"
    /\ \A l \in CropLines :
          (\A v \in LineViews(l) : Absent(v[1])) =>
              l.status = "Unassigned" /\ l.deadline = None
    /\ \A l \in TimedLines :
          (tool # "crop-timers" /\ l.deadline # None) => l.deadline[1] # DateTimeDefault

(***************************************************************************)
(* C8.  The catalog is total and gives an id it does not know the label    *)
(* of an unknown crop.                                                     *)
(***************************************************************************)
UnknownViews == {v \in PatchViews : v[1].plant_id \notin KnownCrops}

CatalogAnswers ==
    /\ \A v \in PatchViews :
          /\ v[2].status \in CropStatus
          /\ v[2].finish_time \in Int
          /\ v[2].wilt_time \in Int
          /\ v[2].wither_time \in Int
    /\ \A l \in CropLines :
          l.crop_id \notin KnownCrops => l.name = "(Unknown Crop)"

\* C8 as claimed: for an unknown id the completion duration, the decay delay
\* and the grace period wither - wilt are all zero.
C8_UnknownAllZero ==
    /\ CatalogAnswers
    /\ \A v \in UnknownViews :
          /\ v[2].finish_time - v[1].plant_time = 0
          /\ v[2].wilt_time - v[1].last_tending = 0
          /\ v[2].wither_time - v[2].wilt_time = 0

\* C8 as amended: for an unknown id the completion duration and the decay
\* delay are zero and the grace period wither - wilt is one day.
C8_UnknownZeroButGrace ==
    /\ CatalogAnswers
    /\ \A v \in UnknownViews :
          /\ v[2].finish_time - v[1].plant_time = 0
          /\ v[2].wilt_time - v[1].last_tending = 0
          /\ v[2].wither_time - v[2].wilt_time = 86400

C8_Witness ==
    /\ UnknownViews # {}
    /\ \E l \in CropLines : l.crop_id \notin KnownCrops

(***************************************************************************)
(* C9.  No bad input is fatal: skipped files and rows do not keep the      *)
(* well-formed ones from being processed and reported, and the run does    *)
(* not abort.                                                              *)
(***************************************************************************)
RECURSIVE SumCounts(_)
SumCounts(ls) ==
    IF ls = {} THEN 0
    ELSE LET l == CHOOSE x \in ls : TRUE IN l.count + SumCounts(ls \ {l})

VentureRows == {i \in 1..Len(inv_rows) : inv_rows[i].ok /\ inv_rows[i].item_id = VentureItemId}

C9_NoBadInputIsFatal ==
    /\ tool = "crop-timers" =>
          /\ NumPatches(entries_by_crop) = offered
          /\ exit # "running" => (exit = "Ok" /\ SumCounts(CropLines) = offered)
    /\ (tool = "map-allowances" /\ pc = "read_dir") => Len(entries) = offered
    /\ tool = "map-allowances" => exit # "Err"
    /\ (tool = "inventory-tracker" /\ exit # "running") =>
          /\ exit = "Ok"
          /\ {l.row : l \in Lines} = VentureRows

(***************************************************************************)
(* C10.  A deadline after now is rendered HH:MM:SS from deadline - now:    *)
(* HH the whole hours, not wrapped at 24, MM and SS two digits in 0..59.   *)
(***************************************************************************)
C10_CountdownIsHoursMinutesSeconds ==
    \A l \in TimedLines :
        (l.shown = "countdown" /\ l.deadline[1] > l.now) =>
            LET t == l.text
                n == Len(t)
                HH == SubSeq(t, 1, n - 6)
                MM == SubSeq(t, n - 4, n - 3)
                SS == SubSeq(t, n - 1, n)
            IN  /\ n >= 8
                /\ t[n - 5] = ":" /\ t[n - 2] = ":"
                /\ AllDigits(HH) /\ AllDigits(MM) /\ AllDigits(SS)
                /\ ParseNat(MM) \in 0..59
                /\ ParseNat(SS) \in 0..59
                /\ ParseNat(HH) * 3600 + ParseNat(MM) * 60 + ParseNat(SS)
                      = l.deadline[1] - l.now

\* 25 h 3 min 9 s before the deadline the countdown reads 25:03:09.
C10_Witness ==
    \E l \in TimedLines :
        /\ l.shown = "countdown"
        /\ l.deadline[1] - l.now = 90189
        /\ l.text = <<"2", "5", ":", "0", "3", ":", "0", "9">>

(***************************************************************************)
(* C11.  map-allowances terminates normally for every set of loaded task   *)
(* entries: once the entries whose map instant is not later than one week  *)
(* before now are removed, computing the width of the name column never    *)
(* fails, also when no entry is left.                                      *)
(***************************************************************************)
C11_MapAllowancesNeverPanics ==
    tool = "map-allowances" =>
        /\ exit \in {"running", "Ok"}
        /\ (pc = "render" => Len(entries) > 0 /\ max_name_len > 0)

====
